---- MODULE Spec2Model ----
\* Verification model of the pygemini data layer (gemini3d): the path resolver
\* (find.py), the size-descriptor and grid readers/writers (hdf.py) and the
\* frame-reader dispatch (read.py).
EXTENDS Integers, Sequences, FiniteSets, TLC

\* ---------------------------------------------------------------- bounds
\* time-of-day grid of the frame files: 0, 1/2 s, 1 s, ... MaxTick/2 s
MaxTick == 3
\* most files on disk (output frames and input files together)
MaxFiles == 2
\* longest axis of a grid
MaxLen == 2
\* spacing of the values float32 can hold, in units of the 64-bit values
F32Ulp == 2
\* largest flagoutput value a configuration holds
MaxFlag == 3
\* largest deviation of a candidate grid from its reference
MaxDev == 5

\* ---------------------------------------------------------------- find.py
\* find.py:11
\* A string is modelled as the sequence of its tokens, so that "." + suffix,
\* startswith("."), stem + suffix, Path.stem, Path.suffix and "stem in name"
\* are computed as Python computes them.
FILE_FORMATS == << <<".", "h5">>, <<".", "nc">> >>

\* microseconds per second, seconds per day (datetime.timedelta's normal form)
MicrosPerSecond == 10^6
SecondsPerDay == 24 * 3600

\* datetime.timedelta(days, seconds, microseconds), normalised as Python does:
\* 0 <= seconds < 86400, 0 <= microseconds < 10^6, the sign in days
TimeDelta(days, seconds, micro) ==
    LET s == seconds + (micro \div MicrosPerSecond)
    IN  [days |-> days + (s \div SecondsPerDay),
         seconds |-> s % SecondsPerDay,
         micro |-> micro % MicrosPerSecond]

\* find.py:49
MAX_OFFSET == TimeDelta(0, 1, 0)

\* the absent value (Python None) of an optional string argument
NoArg == <<"None">>

Tick == MicrosPerSecond \div 2
TimesOfDay == {k * Tick : k \in 0..MaxTick}
Dates == {20200101, 20200102}
FrameExts == {<<".", "h5">>, <<".", "nc">>, <<".", "dat">>}

\* a datetime: the date (YYYYMMDD) and the microseconds since midnight
DateTimes == [date : Dates, us : TimesOfDay]
\* the times a caller asks for
RequestTimes == [date : {20200101}, us : TimesOfDay]

\* names of the form {YYYYMMDD}_{seconds:05d}.{microseconds:06d}{ext}
FrameNames == [date : Dates, sec : 0..(MaxTick \div 2), micro : {0, Tick}, ext : FrameExts]

\* find.py:35-39: the stem frame() formats from the requested time
FrameStem(time) ==
    [date |-> time.date, sec |-> time.us \div MicrosPerSecond, micro |-> time.us % MicrosPerSecond]

\* find.py:44: simdir / (stem + ext)
FrameFile(stem, ext) ==
    [date |-> stem.date, sec |-> stem.sec, micro |-> stem.micro, ext |-> ext]

\* Python truthiness of an optional string: None and "" are both false
Truthy(x) == x # NoArg /\ x # <<>>

\* find.py:41
FrameSuffixes(file_format) ==
    IF Truthy(file_format) THEN << <<".">> \o file_format >> ELSE FILE_FORMATS

\* find.py:56: strptime(name[:8]) + timedelta(seconds=float(name[9:21]))
FileTime(fn) == [date |-> fn.date, us |-> fn.sec * MicrosPerSecond + fn.micro]

\* strptime("%Y%m%d"): the day number of a date of January 2020
DayNumber(date) == date - 20200101

\* find.py:61,63: abs(afile_time - time), a timedelta
AbsDiff(t1, t2) ==
    LET dd == DayNumber(t1.date) - DayNumber(t2.date)
        d == TimeDelta(dd, 0, t1.us - t2.us)
    IN  IF d.days < 0 THEN TimeDelta(0 - d.days, 0 - d.seconds, 0 - d.micro) ELSE d

\* timedelta's <= : lexicographic on the normal form
TdLeq(a, b) ==
    \/ a.days < b.days
    \/ a.days = b.days /\ a.seconds < b.seconds
    \/ a.days = b.days /\ a.seconds = b.seconds /\ a.micro <= b.micro

\* find.py:50,53: simdir.glob(YYYYMMDD_* + ext)
GlobFrames(files, time, ext) == {fn \in files : fn.date = time.date /\ fn.ext = ext}

\* find.py:63: the tolerance test
WithinOffsetStrict(d) == TdLeq(d, MAX_OFFSET) /\ d # MAX_OFFSET
WithinOffset(d) == TdLeq(d, MAX_OFFSET)

\* find.py:60-61: the entries argmin may pick (the first minimum in glob order,
\* and glob order is the directory's: any minimum)
ArgMin(cands, time) ==
    {fn \in cands : \A g \in cands : TdLeq(AbsDiff(FileTime(fn), time), AbsDiff(FileTime(g), time))}

Returned(p) == [kind |-> "path", path |-> p]
ReturnedNone == [kind |-> "None"]
Raised(e) == [kind |-> "raise", exc |-> e]

\* find.py:43-46: the exact name, per suffix in order
RECURSIVE ExactFrame(_, _, _, _)
ExactFrame(files, stem, suffixes, i) ==
    IF i > Len(suffixes) THEN {}
    ELSE IF FrameFile(stem, suffixes[i]) \in files
         THEN {Returned(FrameFile(stem, suffixes[i]))}
         ELSE ExactFrame(files, stem, suffixes, i + 1)

\* find.py:51-64: the closest file of each suffix in order, when within MAX_OFFSET
RECURSIVE ApproxFrame(_, _, _, _)
ApproxFrame(files, time, suffixes, i) ==
    IF i > Len(suffixes) THEN {}
    ELSE LET cands == GlobFrames(files, time, suffixes[i])
             best == ArgMin(cands, time)
         IN  IF cands # {} /\ \E fn \in best : WithinOffset(AbsDiff(FileTime(fn), time))
             THEN {Returned(fn) : fn \in best}
             ELSE ApproxFrame(files, time, suffixes, i + 1)

\* find.py:66-69
FrameNotFound(required) == IF required THEN Raised("FileNotFoundError") ELSE ReturnedNone

\* find.py:26-69 with the two loops exchanged: the approximate search first
frameApproxFirst(files, time, file_format, required) ==
    LET suffixes == FrameSuffixes(file_format)
        exact == ExactFrame(files, FrameStem(time), suffixes, 1)
        approx == ApproxFrame(files, time, suffixes, 1)
    IN  IF approx # {} THEN approx
        ELSE IF exact # {} THEN exact
        ELSE {FrameNotFound(required)}

\* find.py:26-69: the outcomes frame() can produce
frame(files, time, file_format, required) ==
    LET suffixes == FrameSuffixes(file_format)
        exact == ExactFrame(files, FrameStem(time), suffixes, 1)
        approx == ApproxFrame(files, time, suffixes, 1)
    IN  IF exact # {} THEN exact
        ELSE IF approx # {} THEN approx
        ELSE {FrameNotFound(required)}

\* ---- find_stem
\* pathlib: the index of the last "." of a file name that starts a suffix
\* (a leading "." starts none), 0 when there is none
RECURSIVE LastDot(_, _)
LastDot(name, i) ==
    IF i <= 1 THEN 0
    ELSE IF name[i] = "." THEN i ELSE LastDot(name, i - 1)

\* pathlib.PurePath.suffix and .stem of the last component, .parent, and p / name
PathSuffix(path) ==
    LET name == path[Len(path)]
        d == LastDot(name, Len(name))
    IN  IF d = 0 \/ d = Len(name) THEN <<>> ELSE SubSeq(name, d, Len(name))
PathStem(path) ==
    LET name == path[Len(path)]
        d == LastDot(name, Len(name))
    IN  IF d = 0 \/ d = Len(name) THEN name ELSE SubSeq(name, 1, d - 1)
PathParent(path) == SubSeq(path, 1, Len(path) - 1)
PathJoin(path, name) == Append(path, name)

\* Python's "stem in path.stem": a contiguous occurrence
StrIn(sub, str) ==
    \E i \in 1..(Len(str) - Len(sub) + 1) : SubSeq(str, i, i + Len(sub) - 1) = sub

\* the directories of the simulation tree
SimDir == << <<"sim">> >>
InputsDir == PathJoin(SimDir, <<"inputs">>)
Dirs == {SimDir, InputsDir}
is_dir(path) == path \in Dirs
is_file(files, path) == path \in files

\* find.py:97-105: the suffixes tried; a str suffix gets its "." and stands alone
StemSuffixes(suffix) ==
    IF Truthy(suffix)
    THEN IF suffix[1] # "." THEN << <<".">> \o suffix >> ELSE <<suffix>>
    ELSE FILE_FORMATS

\* find.py:108-112: the candidates in the order the loops try them
StemCandidatesBySuffix(path, stem, suffixes) ==
    [k \in 1..(2 * Len(suffixes)) |->
        LET s == ((k - 1) \div 2) + 1
            p == IF (k - 1) % 2 = 0 THEN path ELSE PathJoin(path, <<"inputs">>)
        IN  PathJoin(p, stem \o suffixes[s])]
StemCandidates(path, stem, suffixes) ==
    [k \in 1..(2 * Len(suffixes)) |->
        LET p == IF k <= Len(suffixes) THEN path ELSE PathJoin(path, <<"inputs">>)
            s == ((k - 1) % Len(suffixes)) + 1
        IN  PathJoin(p, stem \o suffixes[s])]

RECURSIVE FirstFile(_, _, _)
FirstFile(files, cands, k) ==
    IF k > Len(cands) THEN ReturnedNone
    ELSE IF is_file(files, cands[k]) THEN Returned(cands[k])
    ELSE FirstFile(files, cands, k + 1)

\* find.py:92: the suffix the recursion on the parent is given
RecursionSuffix(path, suffix) == PathSuffix(path)

\* find.py:114-117 (and 93-95): nothing found
NotFoundIgnoreRequired(required) == ReturnedNone
NotFound(required) == IF required THEN Raised("FileNotFoundError") ELSE ReturnedNone

\* find.py:81-117
RECURSIVE find_stem(_, _, _, _, _)
find_stem(files, path, stem, suffix, required) ==
    IF is_file(files, path)
    THEN IF StrIn(stem, PathStem(path))
         THEN Returned(path)
         ELSE LET found == find_stem(files, PathParent(path), stem,
                                     RecursionSuffix(path, suffix), FALSE)
              IN  IF found = ReturnedNone THEN NotFound(required) ELSE found
    ELSE LET suffixes == StemSuffixes(suffix)
             found == IF is_dir(path)
                      THEN FirstFile(files, StemCandidates(path, stem, suffixes), 1)
                      ELSE ReturnedNone
         IN  IF found = ReturnedNone THEN NotFound(required) ELSE found

\* the file names the model puts into the tree
TreeStems == {<<"simgrid">>, <<"simsize">>, <<"simgrid", "_v2">>}
TreeSuffixes == {<<".", "h5">>, <<".", "nc">>, <<>>}
TreePaths == {PathJoin(d, st \o su) : d \in Dirs, st \in TreeStems, su \in TreeSuffixes}
CallPaths == TreePaths \cup Dirs \cup {<< <<"nowhere">> >>}

\* ---------------------------------------------------------------- hdf.py
\* numpy arrays: a shape and the element at every index tuple (1-based)
RECURSIVE Indices(_)
Indices(shape) ==
    IF shape = <<>> THEN {<<>>}
    ELSE {<<i>> \o t : i \in 1..Head(shape), t \in Indices(Tail(shape))}

Reverse(seq) == [i \in 1..Len(seq) |-> seq[Len(seq) + 1 - i]]

NdArray(shape, elem(_)) == [shape |-> shape, at |-> [idx \in Indices(shape) |-> elem(idx)]]

\* ndarray.ndim, ndarray.size
Ndim(a) == Len(a.shape)
Size(a) == Cardinality(DOMAIN a.at)

\* ndarray.transpose() without arguments: the axes reversed
Transpose(a) == NdArray(Reverse(a.shape), LAMBDA idx : a.at[Reverse(idx)])

\* a 64-bit value stored as float32: rounded to the nearest multiple of F32Ulp
F32(v) == ((2 * v + F32Ulp) \div (2 * F32Ulp)) * F32Ulp
AsFloat32(a) == NdArray(a.shape, LAMBDA idx : F32(a.at[idx]))

\* np.array([...]) of three scalars
Triple(v1, v2, v3) == NdArray(<<3>>, LAMBDA idx : <<v1, v2, v3>>[idx[1]])
\* a 0-d (scalar) dataset and a singleton (shape (1,)) dataset
Scalar0d(v) == NdArray(<<>>, LAMBDA idx : v)
Singleton(v) == NdArray(<<1>>, LAMBDA idx : v)

\* an HDF5 file on disk: absent, or its datasets by name
NoFile == [exists |-> FALSE]
H5File(data) == [exists |-> TRUE, data |-> data]
EmptyDict == [k \in {} |-> 0]

ReturnedArray(a) == [kind |-> "array", value |-> a]
ReturnedGrid(g) == [kind |-> "grid", grid |-> g]

\* h5py.File(...) as a context manager: the handle is open inside the block
\* and closed by __exit__ on return and on raise alike
OpenFile(handles, name) == handles \cup {name}
ExitWith(handles, name, outcome) == handles \ {name}

\* hdf.py:29-45: the keys in the order the if/elif chain asks for them
SizeKeyOrderLxFirst == <<"lx", "lxs", "lx1">>
SizeKeyOrder == <<"lxs", "lx", "lx1">>

\* hdf.py:33-43: the triple assembled from the per-axis datasets; h5py raises
\* KeyError for a dataset that is not in the file
PerAxisSize(f) ==
    IF ~({"lx2", "lx3"} \subseteq DOMAIN f) THEN Raised("KeyError")
    ELSE IF Ndim(f["lx1"]) > 0
         THEN \* f[k][:].squeeze()[()] of a singleton dataset
              ReturnedArray(Triple(f["lx1"].at[<<1>>], f["lx2"].at[<<1>>], f["lx3"].at[<<1>>]))
         ELSE \* f[k][()] of a scalar dataset
              ReturnedArray(Triple(f["lx1"].at[<<>>], f["lx2"].at[<<>>], f["lx3"].at[<<>>]))

\* hdf.py:28-47: the body of the with block
RECURSIVE SimsizeBody(_, _)
SimsizeBody(f, i) ==
    IF i > Len(SizeKeyOrder) THEN Raised("KeyError")
    ELSE IF SizeKeyOrder[i] \in DOMAIN f
         THEN IF SizeKeyOrder[i] = "lx1" THEN PerAxisSize(f)
              ELSE ReturnedArray(f[SizeKeyOrder[i]])
         ELSE SimsizeBody(f, i + 1)

\* hdf.py:18-47: get_simsize; h5py.File(path, "r") of a missing file raises
\* FileNotFoundError (h5py 3, the version the except clause of readgrid is for)
get_simsize(file, handles) ==
    IF ~file.exists
    THEN [ret |-> Raised("FileNotFoundError"), handles |-> handles]
    ELSE LET opened == OpenFile(handles, "simsize.h5")
             out == SimsizeBody(file.data, 1)
         IN  [ret |-> out, handles |-> ExitWith(opened, "simsize.h5", out)]

\* hdf.py:243-289: the dataset names write_grid stores, when the grid has them
GridKeysOfAxis(i) ==
    {"x" \o i, "x" \o i \o "i", "dx" \o i \o "b", "dx" \o i \o "h", "h" \o i,
     "h" \o i \o "x1i", "h" \o i \o "x2i", "h" \o i \o "x3i", "gx" \o i, "e" \o i}
GridKeys ==
    GridKeysOfAxis("1") \cup GridKeysOfAxis("2") \cup GridKeysOfAxis("3")
    \cup {"alt", "glat", "glon", "Bmag", "I", "nullpts", "er", "etheta", "ephi",
          "r", "theta", "phi", "x", "y", "z"}

\* hdf.py:235: np.array of the three shape tuples: one row per axis
ShapesArray(xg) ==
    LET rows == <<xg["x1"].shape, xg["x2"].shape, xg["x3"].shape>>
    IN  NdArray(<<3, Len(rows[1])>>, LAMBDA idx : rows[idx[1]][idx[2]])

\* hdf.py:205: np.array of the three sizes
SizesArray(grid) == Triple(Size(grid["x1"]), Size(grid["x2"]), Size(grid["x3"]))

\* hdf.py:234-235: the grid as write_grid leaves it in memory
WithLx(xg) == IF "lx" \in DOMAIN xg THEN xg ELSE xg @@ ("lx" :> ShapesArray(xg))

\* hdf.py:260-271, 294-305: one field as stored
StoredField(a) == IF Ndim(a) >= 2 THEN AsFloat32(Transpose(a)) ELSE AsFloat32(a)

\* hdf.py:197-200: one field as loaded
LoadedFieldNoTranspose(d) == d
LoadedField(d) == IF Ndim(d) >= 2 THEN Transpose(d) ELSE d

\* hdf.py:210-305: write_grid: the two files written
write_grid(xg) ==
    LET xg1 == WithLx(xg)
    IN  [xg |-> xg1,
         sizeFile |-> H5File("lx" :> xg1["lx"]),
         gridFile |-> H5File([k \in GridKeys \cap DOMAIN xg1 |-> StoredField(xg1[k])])]

\* hdf.py:202-205: the size entry of the grid read
SizeFallbackShapes(grid) == ShapesArray(grid)
SizeFallback(grid) == SizesArray(grid)
GridSizeOf(grid, size, handles) ==
    LET got == get_simsize(size, handles)
    IN  IF got.ret.kind = "array" THEN [ret |-> got.ret, handles |-> got.handles]
        ELSE IF got.ret.exc = "FileNotFoundError"
        THEN IF {"x1", "x2", "x3"} \subseteq DOMAIN grid
             THEN [ret |-> ReturnedArray(SizeFallback(grid)), handles |-> got.handles]
             ELSE [ret |-> Raised("KeyError"), handles |-> got.handles]
        ELSE got

\* hdf.py:169-207: readgrid
readgrid(grid_file, size, handles) ==
    IF ~grid_file.exists THEN [ret |-> ReturnedGrid(EmptyDict), handles |-> handles]
    ELSE LET opened == OpenFile(handles, "simgrid.h5")
             grid == [k \in DOMAIN grid_file.data |-> LoadedField(grid_file.data[k])]
             closed == ExitWith(opened, "simgrid.h5", ReturnedNone)
             lxs == GridSizeOf(grid, size, closed)
         IN  IF lxs.ret.kind = "array"
             THEN [ret |-> ReturnedGrid(("lxs" :> lxs.ret.value) @@ grid),
                   handles |-> lxs.handles]
             ELSE lxs

\* ---- the grids and size files of the model
\* element values: distinct at distinct positions, further apart than rounding moves them
Stride == 2 * F32Ulp
RECURSIVE Lin(_, _)
Lin(shape, idx) ==
    IF shape = <<>> THEN 0
    ELSE (idx[1] - 1) + Head(shape) * Lin(Tail(shape), Tail(idx))
Fill(shape, seed) == NdArray(shape, LAMBDA idx : seed + Stride * Lin(shape, idx))

Lens == 1..MaxLen
\* a grid always has its three axes (the minimal grid); the volumetric fields
\* and a size entry are optional
OptionalFields(l, seed) ==
    {EmptyDict, "h1" :> Fill(l, seed), "alt" :> Fill(<<l[1], l[2]>>, seed + 1),
     ("h1" :> Fill(l, seed)) @@ ("alt" :> Fill(<<l[1], l[2]>>, seed + 1))}
SizeEntries(l) ==
    {EmptyDict, "lx" :> Triple(l[1], l[2], l[3]), "lxs" :> Triple(l[1], l[2], l[3])}
Grids ==
    UNION {{("x1" :> Fill(<<l[1]>>, seed)) @@ ("x2" :> Fill(<<l[2]>>, seed))
              @@ ("x3" :> Fill(<<l[3]>>, seed)) @@ o @@ e :
              o \in OptionalFields(l, seed), e \in SizeEntries(l)} :
           l \in Lens \X Lens \X Lens, seed \in 0..1}

\* size files of the legacy layouts: any of the keys, the per-axis ones as
\* scalars or as singleton arrays
LegacyPerAxis(keys, enc(_)) == [k \in keys |-> enc(IF k = "lx1" THEN 8 ELSE IF k = "lx2" THEN 9 ELSE 10)]
LegacySizeData ==
    {a @@ b @@ c :
        a \in {EmptyDict, "lxs" :> Triple(2, 3, 4)},
        b \in {EmptyDict, "lx" :> Triple(5, 6, 7)},
        c \in {LegacyPerAxis(keys, Scalar0d) : keys \in SUBSET {"lx1", "lx2", "lx3"}}
              \cup {LegacyPerAxis(keys, Singleton) : keys \in SUBSET {"lx1", "lx2", "lx3"}}}

\* frames: the frame files of the simulation directory; fsFiles: the files of
\* the tree find_stem searches; sizeFile, gridFile: simsize.h5 and simgrid.h5;
\* xg: the grid dictionary as it was handed to write_grid; handles: the HDF5
\* files open; aux: the auxiliary files beside a frame; call: the call in
\* progress, with its arguments and its outcome; frameFile: the state or
\* output frame file of one time step
VARIABLES frames, fsFiles, sizeFile, gridFile, xg, handles, aux, frameFile, call

findVars == <<frames, fsFiles>>
hdfVars == <<sizeFile, gridFile, xg, handles>>
auxVars == <<aux, frameFile>>
vars == <<frames, fsFiles, sizeFile, gridFile, xg, handles, aux, frameFile, call>>

NoCall == [op |-> "none"]

\* the simulation writes one more output frame into the directory
WriteFrame ==
    /\ call = NoCall
    /\ Cardinality(frames) + Cardinality(fsFiles) < MaxFiles
    /\ \E fn \in FrameNames \ frames : frames' = frames \cup {fn}
    /\ UNCHANGED <<fsFiles, call>>
    /\ UNCHANGED <<hdfVars, auxVars>>

\* a grid, size or other input file is written into the tree
WriteFile ==
    /\ call = NoCall
    /\ Cardinality(frames) + Cardinality(fsFiles) < MaxFiles
    /\ \E p \in TreePaths \ fsFiles : fsFiles' = fsFiles \cup {p}
    /\ UNCHANGED <<frames, call>>
    /\ UNCHANGED <<hdfVars, auxVars>>

\* a caller looks a frame up
CallFrame ==
    /\ call = NoCall
    /\ \E time \in RequestTimes, ff \in {NoArg, <<"h5">>, <<"nc">>, <<"dat">>},
          required \in BOOLEAN :
        \E r \in frame(frames, time, ff, required) :
            call' = [op |-> "frame", time |-> time, file_format |-> ff,
                     required |-> required, ret |-> r]
    /\ UNCHANGED <<frames, fsFiles>>
    /\ UNCHANGED <<hdfVars, auxVars>>

\* a caller resolves a logical stem (find.grid: stem "simgrid")
CallFindStem ==
    /\ call = NoCall
    /\ \E path \in CallPaths, suffix \in {NoArg, <<"nc">>}, required \in BOOLEAN :
        call' = [op |-> "find_stem", path |-> path, stem |-> <<"simgrid">>,
                 suffix |-> suffix, required |-> required,
                 ret |-> find_stem(fsFiles, path, <<"simgrid">>, suffix, required)]
    /\ UNCHANGED <<frames, fsFiles>>
    /\ UNCHANGED <<hdfVars, auxVars>>

\* the caller takes the result (or the exception) and goes on
FindDone ==
    /\ call # NoCall
    /\ call' = NoCall
    /\ UNCHANGED <<frames, fsFiles>>
    /\ UNCHANGED <<hdfVars, auxVars>>

InitDisk ==
    /\ frames = {} /\ fsFiles = {}
    /\ sizeFile = NoFile /\ gridFile = NoFile /\ xg = EmptyDict /\ handles = {}
    /\ aux = {}
    /\ frameFile = NoFile
InitFind == InitDisk /\ call = NoCall
NextFind == WriteFrame \/ WriteFile \/ CallFrame \/ CallFindStem \/ FindDone
SpecFind == InitFind /\ [][NextFind]_vars

\* ---- hdf.py operations
\* write_grid(size_fn, grid_fn, xg): the grid of a simulation is generated once
WriteGrid ==
    /\ call = NoCall
    /\ ~gridFile.exists
    /\ \E g \in Grids :
        LET w == write_grid(g)
        IN  /\ xg' = g
            /\ sizeFile' = w.sizeFile
            /\ gridFile' = w.gridFile
            /\ call' = [op |-> "write_grid", xg |-> g, xgAfter |-> w.xg,
                        ret |-> ReturnedNone]
    /\ UNCHANGED <<handles, findVars, auxVars>>

\* the size file is deleted
RemoveSizeFile ==
    /\ call = NoCall
    /\ sizeFile.exists
    /\ sizeFile' = NoFile
    /\ UNCHANGED <<gridFile, xg, handles, call, findVars, auxVars>>

\* a size file of a legacy layout is put beside the grid
WriteLegacySize ==
    /\ call = NoCall
    /\ ~sizeFile.exists
    /\ \E d \in LegacySizeData : sizeFile' = H5File(d)
    /\ UNCHANGED <<gridFile, xg, handles, call, findVars, auxVars>>

\* get_simsize(simsize.h5)
GetSimsize ==
    /\ call = NoCall
    /\ LET r == get_simsize(sizeFile, handles)
       IN  /\ call' = [op |-> "get_simsize", ret |-> r.ret]
           /\ handles' = r.handles
    /\ UNCHANGED <<sizeFile, gridFile, xg, findVars, auxVars>>

\* readgrid(simgrid.h5)
ReadGrid ==
    /\ call = NoCall
    /\ LET r == readgrid(gridFile, sizeFile, handles)
       IN  /\ call' = [op |-> "readgrid", ret |-> r.ret]
           /\ handles' = r.handles
    /\ UNCHANGED <<sizeFile, gridFile, xg, findVars, auxVars>>

\* the caller takes the result (or the exception) and goes on
HdfDone ==
    /\ call # NoCall
    /\ call' = NoCall
    /\ UNCHANGED <<hdfVars, findVars, auxVars>>

InitGrid == InitDisk /\ call = NoCall
NextGrid ==
    WriteGrid \/ RemoveSizeFile \/ WriteLegacySize \/ GetSimsize \/ ReadGrid \/ HdfDone
SpecGrid == InitGrid /\ [][NextGrid]_vars

\* ---------------------------------------------------------------- read.py
\* read.py:67: "if not fn": None and the empty string are false, a Path is true
NoPath == [given |-> FALSE]
FramePath(ext) == [given |-> TRUE, suffix |-> ext]
DataPaths == {NoPath} \cup {FramePath(e) : e \in FrameExts \cup {<<".", "mat">>, <<>>}}
DataFormats == {NoArg, <<"dat">>, <<"h5">>, <<"nc">>, <<"mat">>}
\* flagoutput values; -1 stands for every value that is not 0, 1 or 2 and is
\* not positive (None, when the configuration has no flagoutput, is one)
Flags == -1..MaxFlag

\* read.py:95-96: the format the dispatch uses, fn.suffix[1:] when none is given
DataFormat(fn, file_format) ==
    IF Truthy(file_format) THEN file_format
    ELSE IF fn.suffix = <<>> THEN <<>> ELSE Tail(fn.suffix)

\* the module read.py imports for each format (read.py:16-18)
ReaderModule(fmt) ==
    IF fmt = <<"dat">> THEN "raw_read" ELSE IF fmt = <<"h5">> THEN "h5read" ELSE "ncread"

\* read.py:102-109, 118-125, 133-140: the reader a flagoutput selects
FlagReaderElseCurv(flag) ==
    IF flag = 0 THEN "frame3d_curvne"
    ELSE IF flag = 2 THEN "frame3d_curvavg"
    ELSE "frame3d_curv"
FlagReader(flag) ==
    IF flag = 0 THEN "frame3d_curvne"
    ELSE IF flag = 1 THEN "frame3d_curv"
    ELSE IF flag = 2 THEN "frame3d_curvavg"
    ELSE "ValueError"

\* read.py:156-187: Efield, dispatching on the suffix of E0dir / fn.name
EfieldReads(fn) ==
    IF fn.suffix \in {<<".", "h5">>, <<".", "nc">>, <<".", "dat">>}
    THEN [ok |-> TRUE, reads |-> <<<<ReaderModule(Tail(fn.suffix)), "Efield">>>>]
    ELSE [ok |-> FALSE, reads |-> <<>>]

ReturnedFrame(reader, parts) == [kind |-> "frame", reader |-> reader, parts |-> parts]
ReturnedEmpty == [kind |-> "empty"]

\* read.py:44-153: data(); the outcome and the collaborators it called, in
\* order (the readers themselves are taken to return)
data(fn, file_format, cfgGiven, flag, E0dir, files) ==
    IF ~fn.given THEN [ret |-> ReturnedEmpty, reads |-> <<>>]
    ELSE
    LET cfgReads == IF cfgGiven THEN <<>> ELSE <<<<"config", "read_config">>>>
        fmt == DataFormat(fn, file_format)
        known == fmt \in {<<"dat">>, <<"h5">>, <<"nc">>}
        mod == ReaderModule(fmt)
        flagReads == IF fmt = <<"dat">> THEN <<<<"fileio", "get_simsize">>>>
                     ELSE <<<<mod, "flagoutput">>>>
        reader == FlagReader(flag)
        auroraReads == IF "aurmaps" \in files THEN <<<<mod, "glow_aurmap">>>> ELSE <<>>
        wantE == E0dir /\ "Efield" \in files
        efield == EfieldReads(fn)
        frameReads == cfgReads \o flagReads \o <<<<mod, reader>>>> \o auroraReads
    IN  IF ~known THEN [ret |-> Raised("ValueError"), reads |-> cfgReads]
        ELSE IF reader = "ValueError"
        THEN [ret |-> Raised("ValueError"), reads |-> cfgReads \o flagReads]
        ELSE IF wantE /\ ~efield.ok
        THEN [ret |-> Raised("ValueError"), reads |-> frameReads]
        ELSE [ret |-> ReturnedFrame(<<mod, reader>>,
                                    (IF "aurmaps" \in files THEN {"rayleighs", "wavelength"} ELSE {})
                                    \cup (IF wantE THEN {"Efield"} ELSE {})),
              reads |-> frameReads \o (IF wantE THEN efield.reads ELSE <<>>)]

\* ---- read.py operations
\* an auxiliary file (the auroral map, the E0 boundary file) is written beside
\* the frame
WriteAux ==
    /\ call = NoCall
    /\ \E f \in {"aurmaps", "Efield"} \ aux : aux' = aux \cup {f}
    /\ UNCHANGED <<frameFile, call, findVars, hdfVars>>

\* read.data(fn, file_format, cfg=..., E0dir=...)
CallData ==
    /\ call = NoCall
    /\ \E fn \in DataPaths, ff \in DataFormats, cfgGiven \in BOOLEAN, flag \in Flags,
          E0dir \in BOOLEAN :
        LET r == data(fn, ff, cfgGiven, flag, E0dir, aux)
        IN  call' = [op |-> "data", fn |-> fn, file_format |-> ff, cfgGiven |-> cfgGiven,
                     flag |-> flag, E0dir |-> E0dir, ret |-> r.ret, reads |-> r.reads]
    /\ UNCHANGED <<auxVars, findVars, hdfVars>>

\* the caller takes the result (or the exception) and goes on
DataDone ==
    /\ call # NoCall
    /\ call' = NoCall
    /\ UNCHANGED <<auxVars, findVars, hdfVars>>

InitRead == InitDisk /\ call = NoCall
NextRead == WriteAux \/ CallData \/ DataDone
SpecRead == InitRead /\ [][NextRead]_vars

\* ---------------------------------------------------------------- hdf.py, frames
\* hdf.py:15
LSP == 7
\* hdf.py:484, 489: the species the density-weighted sums run over, ns[:6]
IonSpecies == 6

\* ndarray.transpose(axes), axes numbered from 0 as in the source
TransposeAxes(a, axes) ==
    LET n == Len(axes)
        shape == [i \in 1..n |-> a.shape[axes[i] + 1]]
    IN  [shape |-> shape,
         at |-> [idx \in Indices(shape) |->
                    a.at[[j \in 1..n |-> idx[CHOOSE i \in 1..n : axes[i] + 1 = j]]]]]

\* hdf.py:92: the permutation write_state stores the species arrays with
WriterP4 == <<0, 3, 2, 1>>
\* hdf.py:460: lxs[2] == 1
EastWest(lxs) == lxs.at[<<3>>] = 1
\* hdf.py:460-465: the permutations the reader picks from the size
ReaderP4(lxs) == IF EastWest(lxs) THEN <<0, 3, 1, 2>> ELSE <<0, 3, 2, 1>>
ReaderP3(lxs) == IF EastWest(lxs) THEN <<2, 0, 1>> ELSE <<2, 1, 0>>
\* hdf.py:534: the permutation of the averaged reader
AvgP3 == <<2, 0, 1>>

\* hdf.py:85-121: write_state: the file written
write_state(time, ns, vs, Ts) ==
    H5File(("time/ymd" :> Scalar0d(time.ymd)) @@ ("time/UTsec" :> Scalar0d(time.sec))
           @@ ("nsall" :> AsFloat32(TransposeAxes(ns, WriterP4)))
           @@ ("vs1all" :> AsFloat32(TransposeAxes(vs, WriterP4)))
           @@ ("Tsall" :> AsFloat32(TransposeAxes(Ts, WriterP4))))

\* numpy broadcasting of two arrays of one rank
Max(a, b) == IF a >= b THEN a ELSE b
Broadcastable(s, t) ==
    Len(s) = Len(t) /\ \A i \in 1..Len(s) : s[i] = t[i] \/ s[i] = 1 \/ t[i] = 1
BroadcastShape(s, t) == [i \in 1..Len(s) |-> Max(s[i], t[i])]
BroadcastAt(a, idx) == a.at[[i \in 1..Len(idx) |-> IF a.shape[i] = 1 THEN 1 ELSE idx[i]]]

\* a[:n, :, :, :] and a[n, :, :, :] (n from 0)
Min(a, b) == IF a <= b THEN a ELSE b
Leading(a, n) ==
    LET shape == <<Min(n, a.shape[1])>> \o Tail(a.shape)
    IN  [shape |-> shape, at |-> [idx \in Indices(shape) |-> a.at[idx]]]
Slice0(a, n) ==
    [shape |-> Tail(a.shape), at |-> [idx \in Indices(Tail(a.shape)) |-> a.at[<<n + 1>> \o idx]]]

RECURSIVE SumTo(_, _)
SumTo(f, n) == IF n = 0 THEN 0 ELSE f[n] + SumTo(f, n - 1)

\* hdf.py:469, 495: np.any(shape != lxs), lxs a 3-element array
ShapeDiffers(shape, lxs) == \E i \in 1..Len(shape) : shape[i] # lxs.at[<<i>>]

\* hdf.py:482-491: (ns[:6] * xs[:6]).sum(axis=0) / ne, the quotient kept as
\* numerator and denominator
MomentAllSpecies(ns, xs, ne) ==
    LET shape4 == BroadcastShape(ns.shape, xs.shape)
    IN  [shape |-> Tail(shape4),
         at |-> [idx \in Indices(Tail(shape4)) |->
                   [num |-> SumTo([sp \in 1..shape4[1] |->
                                      BroadcastAt(ns, <<sp>> \o idx) * BroadcastAt(xs, <<sp>> \o idx)],
                                  shape4[1]),
                    den |-> BroadcastAt(ne, idx)]]]
Moment(ns, xs, ne) == MomentAllSpecies(Leading(ns, IonSpecies), Leading(xs, IonSpecies), ne)

ReturnedDat(time, dat) == [kind |-> "dat", time |-> time, dat |-> dat]

\* hdf.py:455-503: the body of the with block of loadframe3d_curv; h5py raises
\* KeyError for a dataset that is not in the file
CurvBody(f, lxs) ==
    LET p4 == ReaderP4(lxs)
        p3 == ReaderP3(lxs)
        ns == TransposeAxes(f["nsall"], p4)
        vs == TransposeAxes(f["vs1all"], p4)
        Ts == TransposeAxes(f["Tsall"], p4)
        ne == Slice0(ns, LSP - 1)
        J1 == TransposeAxes(f["J1all"], p3)
        field(k) == TransposeAxes(f[k], p3)
    IN  IF ~({"time/ymd", "time/UThour", "nsall"} \subseteq DOMAIN f) THEN Raised("KeyError")
        ELSE IF ns.shape[1] # LSP \/ ShapeDiffers(Tail(ns.shape), lxs) THEN Raised("ValueError")
        ELSE IF ~({"vs1all", "Tsall"} \subseteq DOMAIN f) THEN Raised("KeyError")
        ELSE IF ~Broadcastable(Leading(ns, IonSpecies).shape, Leading(vs, IonSpecies).shape)
        THEN Raised("ValueError")
        ELSE IF ~Broadcastable(Leading(ns, IonSpecies).shape, Leading(Ts, IonSpecies).shape)
        THEN Raised("ValueError")
        ELSE IF "J1all" \notin DOMAIN f THEN Raised("KeyError")
        ELSE IF ShapeDiffers(J1.shape, lxs) THEN Raised("ValueError")
        ELSE IF ~({"J2all", "J3all", "v2avgall", "v3avgall", "Phiall"} \subseteq DOMAIN f)
        THEN Raised("KeyError")
        ELSE ReturnedDat([ymd |-> f["time/ymd"].at[<<>>], UThour |-> f["time/UThour"].at[<<>>]],
                 ("ns" :> ns) @@ ("vs" :> vs) @@ ("Ts" :> Ts) @@ ("ne" :> ne)
                 @@ ("v1" :> Moment(ns, vs, ne)) @@ ("Ti" :> Moment(ns, Ts, ne))
                 @@ ("Te" :> Slice0(Ts, LSP - 1))
                 @@ ("J1" :> J1) @@ ("J2" :> field("J2all")) @@ ("J3" :> field("J3all"))
                 @@ ("v2" :> field("v2avgall")) @@ ("v3" :> field("v3avgall"))
                 @@ ("Phitop" :> Transpose(f["Phiall"])))

\* hdf.py:438-505: loadframe3d_curv
loadframe3d_curv(file, size, openHandles) ==
    LET got == get_simsize(size, openHandles)
    IN  IF got.ret.kind # "array" THEN got
        ELSE IF ~file.exists THEN [ret |-> Raised("FileNotFoundError"), handles |-> got.handles]
        ELSE LET opened == OpenFile(got.handles, "frame.h5")
                 out == CurvBody(file.data, got.ret.value)
             IN  [ret |-> out, handles |-> ExitWith(opened, "frame.h5", out)]

\* hdf.py:529-556: the body of the with block of loadframe3d_curvavg. The test
\* "dat[j][1].shape != lxs" (hdf.py:553) compares a tuple with a 3-element
\* array: the result is an array of three truth values, whatever the shapes
\* are, and "if" on it raises ValueError at the first dataset
AvgNames == <<"neall", "v1avgall", "Tavgall", "TEall", "J1all", "J2all", "J3all",
              "v2avgall", "v3avgall">>
CurvAvgBody(f, lxs) ==
    IF ~({"time/ymd", "time/UThour", AvgNames[1]} \subseteq DOMAIN f) THEN Raised("KeyError")
    ELSE Raised("ValueError")

\* hdf.py:508-558: loadframe3d_curvavg
loadframe3d_curvavg(file, size, openHandles) ==
    LET got == get_simsize(size, openHandles)
    IN  IF got.ret.kind # "array" THEN got
        ELSE IF ~file.exists THEN [ret |-> Raised("FileNotFoundError"), handles |-> got.handles]
        ELSE LET opened == OpenFile(got.handles, "frame.h5")
                 out == CurvAvgBody(file.data, got.ret.value)
             IN  [ret |-> out, handles |-> ExitWith(opened, "frame.h5", out)]

\* ---- the state and frame files of the model
SpeciesArray(l, seed) == Fill(<<LSP>> \o l, seed)
GridSizes == Lens \X Lens \X Lens
\* a length other than n
OtherLen(n) == IF n = 1 THEN 2 ELSE n - 1
OddShape(l, axis) == [i \in 1..Len(l) |-> IF i = axis THEN OtherLen(l[i]) ELSE l[i]]
SpeciesNames == <<"nsall", "vs1all", "Tsall">>
\* first element of the model's density, velocity and temperature arrays
SpeciesSeed == <<1, 3, 6>>
FieldNames == <<"J1all", "J2all", "J3all", "v2avgall", "v3avgall">>
\* which dataset of a frame, if any, is stored with one axis of another length
OddChoices ==
    {[name |-> "none", axis |-> 1]}
    \cup [name : {SpeciesNames[i] : i \in 1..3} \cup {FieldNames[i] : i \in 1..5}, axis : 1..3]
    \cup {[name |-> "nsall", axis |-> 0]}
ShapeOf(l, odd, name) == IF odd.name = name /\ odd.axis > 0 THEN OddShape(l, odd.axis) ELSE l
SpeciesOf(odd, name) == IF odd.name = name /\ odd.axis = 0 THEN LSP - 1 ELSE LSP
\* the datasets of an output frame of size l: the species arrays in the layout
\* write_state stores, the electrodynamic fields with their axes reversed
OutputFrame(l, odd) ==
    H5File(("time/ymd" :> Scalar0d(20200101)) @@ ("time/UThour" :> Scalar0d(0))
           @@ [k \in {SpeciesNames[i] : i \in 1..3} |->
                 AsFloat32(TransposeAxes(
                     Fill(<<SpeciesOf(odd, k)>> \o ShapeOf(l, odd, k),
                          SpeciesSeed[CHOOSE i \in 1..3 : SpeciesNames[i] = k]), WriterP4))]
           @@ [k \in {FieldNames[i] : i \in 1..5} |->
                 AsFloat32(Transpose(Fill(ShapeOf(l, odd, k), 1)))]
           @@ ("Phiall" :> AsFloat32(Transpose(Fill(<<l[2], l[3]>>, 1)))))

\* the datasets of an averaged output frame of size l, stored in the layout
\* the averaged reader's permutation undoes
AvgFrame(l, odd) ==
    H5File(("time/ymd" :> Scalar0d(20200101)) @@ ("time/UThour" :> Scalar0d(0))
           @@ [k \in {AvgNames[i] : i \in 1..Len(AvgNames)} |->
                 LET sh == ShapeOf(l, odd, k)
                 IN  AsFloat32(Fill(<<sh[2], sh[3], sh[1]>>, 1))]
           @@ ("Phiall" :> AsFloat32(Fill(<<l[2], l[3]>>, 1))))

\* ---- hdf.py:308-392: the boundary and precipitation readers
\* a value read with f[k][:] is an array in memory; f[k] alone is the h5py
\* dataset object, which refers to the file it was taken from
CopyOf(file, k) == [kind |-> "copy", file |-> file, name |-> k]
DatasetOf(file, k) == [kind |-> "dataset", file |-> file, name |-> k]
ReturnedDict(values) == [kind |-> "dict", values |-> values]

EfieldCopied == {"Exit", "Eyit", "Vminx1it", "Vmaxx1it", "Vminx2ist", "Vmaxx2ist",
                 "Vminx3ist", "Vmaxx3ist"}
\* hdf.py:326: E["flagdirich"] = f["flagdirich"]
Flagdirich(file) == DatasetOf(file, "flagdirich")

\* hdf.py:321-323, 385-386: the companion simgrid.h5, a file given by the set
\* of its dataset names
HorizontalGrid(grid, openHandles) ==
    IF ~grid.exists THEN [ret |-> Raised("FileNotFoundError"), handles |-> openHandles]
    ELSE LET opened == OpenFile(openHandles, "simgrid.h5")
             out == IF {"mlon", "mlat"} \subseteq grid.keys
                    THEN ReturnedDict([k \in {"mlon", "mlat"} |-> CopyOf("simgrid.h5", k)])
                    ELSE Raised("KeyError")
         IN  [ret |-> out, handles |-> ExitWith(opened, "simgrid.h5", out)]

\* hdf.py:308-334: read_Efield
read_Efield(grid, file, openHandles) ==
    LET g == HorizontalGrid(grid, openHandles)
    IN  IF g.ret.kind = "raise" THEN g
        ELSE IF ~file.exists THEN [ret |-> Raised("FileNotFoundError"), handles |-> g.handles]
        ELSE LET opened == OpenFile(g.handles, "Efield.h5")
                 out == IF ({"flagdirich"} \cup EfieldCopied) \subseteq file.keys
                        THEN ReturnedDict(g.ret.values
                                 @@ ("flagdirich" :> Flagdirich("Efield.h5"))
                                 @@ [k \in EfieldCopied |-> CopyOf("Efield.h5", k)])
                        ELSE Raised("KeyError")
             IN  [ret |-> out, handles |-> ExitWith(opened, "Efield.h5", out)]

\* hdf.py:376-392: read_precip
read_precip(grid, file, openHandles) ==
    LET g == HorizontalGrid(grid, openHandles)
    IN  IF g.ret.kind = "raise" THEN g
        ELSE IF ~file.exists THEN [ret |-> Raised("FileNotFoundError"), handles |-> g.handles]
        ELSE LET opened == OpenFile(g.handles, "precip.h5")
                 out == IF {"Qp", "E0p"} \subseteq file.keys
                        THEN ReturnedDict(g.ret.values
                                 @@ ("Q" :> CopyOf("precip.h5", "Qp"))
                                 @@ ("E0" :> CopyOf("precip.h5", "E0p")))
                        ELSE Raised("KeyError")
             IN  [ret |-> out, handles |-> ExitWith(opened, "precip.h5", out)]

\* the files of a boundary or precipitation directory: absent, or present with
\* some of their datasets
KeyFile(keys) == [exists |-> TRUE, keys |-> keys]
HorizontalGrids == {NoFile} \cup {KeyFile(keys) : keys \in SUBSET {"mlon", "mlat"}}
EfieldFiles ==
    {NoFile}
    \cup {KeyFile(({"flagdirich"} \cup EfieldCopied) \ missing) :
            missing \in {m \in SUBSET ({"flagdirich"} \cup EfieldCopied) : Cardinality(m) <= 2}}
PrecipFiles == {NoFile} \cup {KeyFile(keys) : keys \in SUBSET {"Qp", "E0p"}}

\* ---- hdf.py frame operations
\* write_state(time, ns, vs, Ts, fn)
WriteState ==
    /\ call = NoCall
    /\ ~frameFile.exists
    /\ \E l \in GridSizes :
        LET ns == SpeciesArray(l, SpeciesSeed[1])
            vs == SpeciesArray(l, SpeciesSeed[2])
            Ts == SpeciesArray(l, SpeciesSeed[3])
        IN  /\ frameFile' = write_state([ymd |-> 20200101, sec |-> 0], ns, vs, Ts)
            /\ call' = [op |-> "write_state", lxs |-> l, ns |-> ns, vs |-> vs, Ts |-> Ts,
                        ret |-> ReturnedNone]
    /\ UNCHANGED <<aux, findVars, hdfVars>>

\* the solver, started from the state file, writes its output frame
SolverOutput ==
    /\ call = NoCall
    /\ frameFile.exists
    /\ "time/UTsec" \in DOMAIN frameFile.data
    /\ \E odd \in OddChoices :
        LET l == Reverse(Tail(frameFile.data["nsall"].shape))
        IN  \/ frameFile' = OutputFrame(l, odd)
            \/ /\ odd.name \notin {SpeciesNames[i] : i \in 1..3}
               /\ frameFile' = AvgFrame(l, odd)
    /\ UNCHANGED <<aux, call, findVars, hdfVars>>

\* the size file inputs/simsize.h5 of the simulation is written
WriteSizeTriple ==
    /\ call = NoCall
    /\ ~sizeFile.exists
    /\ \E l \in GridSizes : sizeFile' = H5File("lxs" :> Triple(l[1], l[2], l[3]))
    /\ UNCHANGED <<gridFile, xg, handles, call, findVars, auxVars>>

\* loadframe3d_curv(fn)
LoadFrameCurv ==
    /\ call = NoCall
    /\ LET r == loadframe3d_curv(frameFile, sizeFile, handles)
       IN  /\ call' = [op |-> "loadframe3d_curv", ret |-> r.ret]
           /\ handles' = r.handles
    /\ UNCHANGED <<sizeFile, gridFile, xg, findVars, auxVars>>

\* loadframe3d_curvavg(fn)
LoadFrameCurvAvg ==
    /\ call = NoCall
    /\ LET r == loadframe3d_curvavg(frameFile, sizeFile, handles)
       IN  /\ call' = [op |-> "loadframe3d_curvavg", ret |-> r.ret]
           /\ handles' = r.handles
    /\ UNCHANGED <<sizeFile, gridFile, xg, findVars, auxVars>>

\* read_Efield(fn)
ReadEfield ==
    /\ call = NoCall
    /\ \E grid \in HorizontalGrids, file \in EfieldFiles :
        LET r == read_Efield(grid, file, handles)
        IN  /\ call' = [op |-> "read_Efield", grid |-> grid, file |-> file, ret |-> r.ret]
            /\ handles' = r.handles
    /\ UNCHANGED <<sizeFile, gridFile, xg, findVars, auxVars>>

\* read_precip(fn)
ReadPrecip ==
    /\ call = NoCall
    /\ \E grid \in HorizontalGrids, file \in PrecipFiles :
        LET r == read_precip(grid, file, handles)
        IN  /\ call' = [op |-> "read_precip", grid |-> grid, file |-> file, ret |-> r.ret]
            /\ handles' = r.handles
    /\ UNCHANGED <<sizeFile, gridFile, xg, findVars, auxVars>>

\* the caller takes the result (or the exception) and goes on
FrameDone ==
    /\ call # NoCall
    /\ call' = NoCall
    /\ UNCHANGED <<hdfVars, findVars, auxVars>>

InitFrame == InitDisk /\ call = NoCall
NextFrame ==
    \/ WriteState \/ SolverOutput \/ WriteSizeTriple
    \/ LoadFrameCurv \/ LoadFrameCurvAvg \/ FrameDone
SpecFrame == InitFrame /\ [][NextFrame]_vars

NextBoundary == ReadEfield \/ ReadPrecip \/ FrameDone
SpecBoundary == InitFrame /\ [][NextBoundary]_vars

\* ---------------------------------------------------------------- compare/grid.py
\* a loaded grid as the comparator walks it: the fields in dictionary order,
\* each an array or a value that is not an array
NonArray(v) == [py |-> v]
IsArray(v) == "shape" \in DOMAIN v
Field(name, value) == [name |-> name, value |-> value]
HasKey(g, k) == \E i \in 1..Len(g) : g[i].name = k
Lookup(g, k) == g[CHOOSE i \in 1..Len(g) : g[i].name = k].value

Abs(x) == IF x < 0 THEN 0 - x ELSE x
\* grid.py:34: np.allclose(a, b, rtol, atol): |a - b| <= atol + rtol * |b| at
\* every index; rtol is given in percent
\* the element that is not a number (every other element of the model's
\* grids is positive): np.allclose (equal_nan=False) finds it close to nothing
NaN == -1
AllCloseAlways(a, b, tol) == TRUE
AllClose(a, b, tol) ==
    \A idx \in DOMAIN a.at :
        /\ a.at[idx] # NaN /\ b.at[idx] # NaN
        /\ 100 * Abs(a.at[idx] - b.at[idx]) <= 100 * tol.atol + tol.rtol * Abs(b.at[idx])

Counted(errs, compared) == [kind |-> "count", errs |-> errs, compared |-> compared]
RaisedAt(exc, compared) == [kind |-> "raise", exc |-> exc, compared |-> compared]

\* grid.py:31-33: the assert on the two shapes has failed
OnMismatchCounted(errs, compared) == Counted(errs + 1, compared)
OnMismatch(errs, compared) == RaisedAt("AssertionError", compared)

\* grid.py:27-36: the loop over the reference fields from the i-th on, errs
\* counted and the fields in compared checked so far
RECURSIVE CompareFrom(_, _, _, _, _, _)
CompareFrom(ref, new, tol, i, errs, compared) ==
    IF i > Len(ref) THEN Counted(errs, compared)
    ELSE LET k == ref[i].name
         IN  IF ~IsArray(ref[i].value)
             THEN CompareFrom(ref, new, tol, i + 1, errs, compared)
             ELSE IF ~HasKey(new, k) THEN RaisedAt("KeyError", compared)
             ELSE IF ref[i].value.shape # Lookup(new, k).shape
             THEN OnMismatch(errs, compared)
             ELSE CompareFrom(ref, new, tol, i + 1,
                              IF AllClose(ref[i].value, Lookup(new, k), tol) THEN errs ELSE errs + 1,
                              Append(compared, k))

\* grid.py:10-38: compare_grid, the two grids as read.grid loaded them (the
\* empty dictionary when there is no grid file)
compare_grid(new, ref, tol) ==
    IF ref = <<>> THEN RaisedAt("FileNotFoundError", <<>>)
    ELSE IF new = <<>> THEN RaisedAt("FileNotFoundError", <<>>)
    ELSE CompareFrom(ref, new, tol, 1, 0, <<>>)

\* ---- the grids and tolerances of the model
\* reference fields: a 1-D axis, a 2-D field and a value that is no array
RefX1 == Fill(<<2>>, 100)
RefAlt == Fill(<<1, 2>>, 200)
\* every element moved by d
Shifted(a, d) ==
    [shape |-> a.shape,
     at |-> [idx \in DOMAIN a.at |-> IF a.at[idx] = NaN THEN NaN ELSE a.at[idx] + d]]
\* a field with an element that is not a number
RefAltNaN == [shape |-> RefAlt.shape,
              at |-> [idx \in DOMAIN RefAlt.at |-> IF idx = <<1, 1>> THEN NaN ELSE RefAlt.at[idx]]]
\* a candidate for a reference array: equal, off by a little or by much, or of
\* another shape
Deviations == {0, 1, MaxDev}
CandidatesOf(a) ==
    {Shifted(a, d) : d \in Deviations}
    \cup {Fill(<<1>> \o a.shape, a.at[CHOOSE idx \in DOMAIN a.at : TRUE])}
ReferenceGrids ==
    {<<>>,
     <<Field("x1", RefX1)>>,
     <<Field("x1", RefX1), Field("alt", RefAlt)>>,
     <<Field("alt", RefAlt), Field("x1", RefX1)>>,
     <<Field("x1", RefX1), Field("alt", RefAltNaN)>>,
     <<Field("x1", RefX1), Field("note", NonArray(1)), Field("alt", RefAlt)>>}
CandidateGrids ==
    {<<>>}
    \cup {<<Field("x1", x)>> : x \in CandidatesOf(RefX1)}
    \cup {<<Field("x1", x), Field("alt", y)>> :
            x \in CandidatesOf(RefX1), y \in CandidatesOf(RefAlt) \cup CandidatesOf(RefAltNaN)}
    \cup {<<Field("x1", x), Field("alt", y), Field("note", NonArray(n))>> :
            x \in CandidatesOf(RefX1), y \in CandidatesOf(RefAlt), n \in {1, 2}}
Tolerances == [rtol : {0, 1}, atol : {0, 2}]

\* ---- compare/grid.py operations
\* compare_grid(new_dir, refdir, tol=tol)
CallCompareGrid ==
    /\ call = NoCall
    /\ \E ref \in ReferenceGrids, new \in CandidateGrids, tol \in Tolerances :
        call' = [op |-> "compare_grid", ref |-> ref, new |-> new, tol |-> tol,
                 ret |-> compare_grid(new, ref, tol)]
    /\ UNCHANGED <<auxVars, findVars, hdfVars>>

\* the caller takes the count (or the exception) and goes on
CompareDone ==
    /\ call # NoCall
    /\ call' = NoCall
    /\ UNCHANGED <<auxVars, findVars, hdfVars>>

InitCompare == InitDisk /\ call = NoCall
NextCompare == CallCompareGrid \/ CompareDone
SpecCompare == InitCompare /\ [][NextCompare]_vars

\* ---------------------------------------------------------------- claims, find.py
Range(seq) == {seq[i] : i \in 1..Len(seq)}
IsFrameCall == call.op = "frame"
IsStemCall == call.op = "find_stem"

\* the suffixes a frame lookup allows: the given format's, or .h5 and .nc
AllowedFrameExts(file_format) ==
    IF file_format = NoArg THEN {<<".", "h5">>, <<".", "nc">>} ELSE {<<".">> \o file_format}

\* the files of the requested date that carry an allowed suffix
SameDateCandidates(time, file_format) ==
    {fn \in frames : fn.date = time.date /\ fn.ext \in AllowedFrameExts(file_format)}

\* the distance of a file's embedded time from the requested time, in microseconds
\* (same date, so the dates cancel)
Distance(fn, time) ==
    LET d == (fn.sec * MicrosPerSecond + fn.micro) - time.us
    IN  IF d < 0 THEN 0 - d ELSE d

NoExactFrame(time, file_format) ==
    \A fn \in SameDateCandidates(time, file_format) : Distance(fn, time) # 0

\* C1: when no exactly-named file exists, the file frame() returns is the one
\* closest to the requested time among ALL same-date files with an allowed
\* suffix, whenever that closest one is within one second.
C1_ClosestOfAllSuffixes ==
    IsFrameCall =>
        LET cands == SameDateCandidates(call.time, call.file_format)
        IN  (/\ NoExactFrame(call.time, call.file_format)
             /\ \E fn \in cands : Distance(fn, call.time) <= MicrosPerSecond)
            => /\ call.ret.kind = "path"
               /\ call.ret.path \in cands
               /\ \A g \in cands :
                    Distance(call.ret.path, call.time) <= Distance(g, call.time)

\* C2: frame() never returns a file more than one second from the requested
\* time, and returns a file whenever a same-date file with an allowed suffix
\* lies within one second.
C2_ToleranceWindow ==
    IsFrameCall =>
        LET cands == SameDateCandidates(call.time, call.file_format)
        IN  /\ call.ret.kind = "path" =>
                /\ call.ret.path \in cands
                /\ Distance(call.ret.path, call.time) <= MicrosPerSecond
            /\ (\E fn \in cands : Distance(fn, call.time) <= MicrosPerSecond)
                => call.ret.kind = "path"

\* C2 witness: a file stamped exactly one second off the requested time is
\* returned while another file of the same date lies outside the window.
C2_Witness ==
    /\ IsFrameCall
    /\ call.ret.kind = "path"
    /\ Distance(call.ret.path, call.time) = MicrosPerSecond
    /\ \E fn \in frames : fn.date = call.time.date /\ Distance(fn, call.time) > MicrosPerSecond

\* what a lookup finds, told from the disk alone
StemMatchPossible ==
    \E p \in fsFiles : StrIn(call.stem, PathStem(p))
FrameMatchPossible ==
    SameDateCandidates(call.time, call.file_format) # {}

\* C3: find_stem and frame on every branch: with nothing matched, required
\* raises FileNotFoundError and not-required returns the empty result; with a
\* file matched neither raises, and the flag never changes which file is matched.
C3_RequiredFlag ==
    /\ IsStemCall =>
        LET quiet == find_stem(fsFiles, call.path, call.stem, call.suffix, FALSE)
        IN  /\ quiet.kind \in {"path", "None"}
            /\ quiet.kind = "path" => call.ret = quiet /\ quiet.path \in fsFiles
            /\ quiet.kind = "None" =>
                 call.ret = IF call.required THEN Raised("FileNotFoundError")
                            ELSE ReturnedNone
            /\ ~StemMatchPossible => quiet.kind = "None"
            /\ (is_file(fsFiles, call.path) /\ StrIn(call.stem, PathStem(call.path)))
                 => call.ret = Returned(call.path)
            /\ (~is_file(fsFiles, call.path) /\ ~is_dir(call.path))
                 => quiet.kind = "None"
    /\ IsFrameCall =>
        LET quiet == frame(frames, call.time, call.file_format, FALSE)
        IN  /\ \A q \in quiet : q.kind \in {"path", "None"}
            /\ ReturnedNone \notin quiet => call.ret \in quiet /\ call.ret.path \in frames
            /\ ReturnedNone \in quiet =>
                 call.ret = IF call.required THEN Raised("FileNotFoundError")
                            ELSE ReturnedNone
            /\ ~FrameMatchPossible => ReturnedNone \in quiet

\* C3 witness: a required lookup through a non-matching file has raised, with
\* a file of the stem on disk that the search does not reach.
C3_Witness ==
    /\ IsStemCall
    /\ call.required
    /\ is_file(fsFiles, call.path)
    /\ ~StrIn(call.stem, PathStem(call.path))
    /\ StemMatchPossible
    /\ call.ret = Raised("FileNotFoundError")

\* the order the claim gives: the directory with each suffix, then inputs with each
C4_Order(path, stem, suffixes) ==
    [i \in 1..Len(suffixes) |-> PathJoin(path, stem \o suffixes[i])]
    \o [i \in 1..Len(suffixes) |-> PathJoin(PathJoin(path, <<"inputs">>), stem \o suffixes[i])]

C4_Allowed(suffix) ==
    IF suffix = NoArg THEN << <<".", "h5">>, <<".", "nc">> >>
    ELSE IF suffix[1] = "." THEN <<suffix>> ELSE << <<".">> \o suffix >>

\* C4: find_stem given a directory returns the first existing file in the order
\* (dir, suffix1), (dir, suffix2), (dir/inputs, suffix1), (dir/inputs, suffix2),
\* and is empty only if none of them exists.
C4_DirectoryOrder ==
    (IsStemCall /\ is_dir(call.path) /\ ~is_file(fsFiles, call.path)) =>
        LET order == C4_Order(call.path, call.stem, C4_Allowed(call.suffix))
            there == {k \in 1..Len(order) : order[k] \in fsFiles}
        IN  IF there = {}
            THEN call.ret.kind \in {"None", "raise"}
            ELSE /\ call.ret.kind = "path"
                 /\ \E k \in there : call.ret.path = order[k] /\ \A j \in there : k <= j

\* C4 witness: the directory holds the less-preferred suffix and inputs the
\* preferred one; the directory's file is returned.
C4_Witness ==
    /\ IsStemCall
    /\ call.path = SimDir
    /\ call.suffix = NoArg
    /\ PathJoin(InputsDir, <<"simgrid", ".", "h5">>) \in fsFiles
    /\ call.ret = Returned(PathJoin(SimDir, <<"simgrid", ".", "nc">>))

\* C5: find_stem given an existing file whose name does not contain the stem
\* returns nothing or a file named stem + that file's own suffix (also when
\* that suffix is empty); no other suffix list is used.
C5_OwnSuffixOnly ==
    (IsStemCall /\ is_file(fsFiles, call.path) /\ ~StrIn(call.stem, PathStem(call.path))) =>
        \/ call.ret.kind \in {"None", "raise"}
        \/ /\ call.ret.kind = "path"
           /\ call.ret.path[Len(call.ret.path)] = call.stem \o PathSuffix(call.path)

\* ---------------------------------------------------------------- claims, hdf.py
IsSimsizeCall == call.op = "get_simsize"
IsReadGridCall == call.op = "readgrid"
IsWriteGridCall == call.op = "write_grid"

OnlyElement(a) == a.at[CHOOSE idx \in DOMAIN a.at : TRUE]
PerAxisKeys == {"lx1", "lx2", "lx3"}

\* C6: get_simsize takes the size from the highest-priority key present, lxs,
\* then lx, then the per-axis lx1/lx2/lx3 assembled into a triple (scalar or
\* singleton-array datasets); KeyError when no recognised key (or no complete
\* per-axis triple) is there; the file handle is closed either way.
C6_SimsizePriority ==
    (IsSimsizeCall /\ sizeFile.exists) =>
        LET f == sizeFile.data
            keys == DOMAIN f
        IN  /\ handles = {}
            /\ "lxs" \in keys => call.ret = ReturnedArray(f["lxs"])
            /\ ("lxs" \notin keys /\ "lx" \in keys) => call.ret = ReturnedArray(f["lx"])
            /\ ({"lxs", "lx"} \cap keys = {} /\ PerAxisKeys \subseteq keys) =>
                 /\ call.ret.kind = "array"
                 /\ call.ret.value.shape = <<3>>
                 /\ call.ret.value.at[<<1>>] = OnlyElement(f["lx1"])
                 /\ call.ret.value.at[<<2>>] = OnlyElement(f["lx2"])
                 /\ call.ret.value.at[<<3>>] = OnlyElement(f["lx3"])
            /\ {"lxs", "lx", "lx1"} \cap keys = {} => call.ret = Raised("KeyError")
            /\ call.ret.kind = "raise" =>
                 /\ call.ret.exc = "KeyError"
                 /\ {"lxs", "lx"} \cap keys = {}
                 /\ ~(PerAxisKeys \subseteq keys)

\* C6 witness: a file with lx and the three per-axis singleton arrays, no
\* lxs: the lx dataset is what comes back.
C6_Witness ==
    /\ IsSimsizeCall
    /\ sizeFile.exists
    /\ DOMAIN sizeFile.data = {"lx"} \cup PerAxisKeys
    /\ Ndim(sizeFile.data["lx1"]) = 1
    /\ call.ret = ReturnedArray(Triple(5, 6, 7))

\* the size file on disk is the one write_grid wrote for the grid in memory
SizeFileAsWritten == gridFile.exists /\ sizeFile = write_grid(xg).sizeFile

SameUpToFloat32(a, b) ==
    /\ a.shape = b.shape
    /\ \A idx \in DOMAIN b.at :
         LET d == a.at[idx] - b.at[idx]
         IN  2 * (IF d < 0 THEN 0 - d ELSE d) <= F32Ulp

C8_SizeFallback ==
    (IsReadGridCall /\ gridFile.exists /\ ~sizeFile.exists) =>
        /\ call.ret.kind = "grid"
        /\ call.ret.grid["lxs"].shape = <<3>>
        /\ \A i \in 1..3 :
             call.ret.grid["lxs"].at[<<i>>] = <<xg["x1"], xg["x2"], xg["x3"]>>[i].shape[1]

\* C8 witness: a grid of only x1, x2, x3 (not all of one length) was written,
\* the size file removed, and the grid read.
C8_Witness ==
    /\ IsReadGridCall
    /\ gridFile.exists
    /\ ~sizeFile.exists
    /\ DOMAIN xg = {"x1", "x2", "x3"}
    /\ xg["x1"].shape # xg["x3"].shape
    /\ call.ret.kind = "grid"

\* C9: when the grid given to write_grid has no size entry, the size file
\* holds the triple (len x1, len x2, len x3), and get_simsize on it returns the
\* 3-element size readgrid would derive from the axis arrays.
C9_SizeTripleWritten ==
    (IsWriteGridCall /\ "lx" \notin DOMAIN call.xg) =>
        /\ sizeFile.exists
        /\ sizeFile.data["lx"].shape = <<3>>
        /\ get_simsize(sizeFile, {}).ret = ReturnedArray(SizesArray(call.xg))

\* ---------------------------------------------------------------- claims, read.py
IsDataCall == call.op = "data"
KnownEncodings == {<<"dat">>, <<"h5">>, <<"nc">>}
FrameReaders == {"frame3d_curvne", "frame3d_curv", "frame3d_curvavg"}

\* the frame readers a call ran, in order
FrameReadersRun == SelectSeq(call.reads, LAMBDA r : r[2] \in FrameReaders)

\* the encoding a call is read as: the given format, else the path's suffix
C10_Encoding ==
    IF call.file_format # NoArg THEN call.file_format
    ELSE IF call.fn.suffix = <<>> THEN <<>>
    ELSE SubSeq(call.fn.suffix, 2, Len(call.fn.suffix))

C10_Variant(flag) ==
    CASE flag = 0 -> "frame3d_curvne"
      [] flag = 1 -> "frame3d_curv"
      [] flag = 2 -> "frame3d_curvavg"

C10_Module(enc) ==
    CASE enc = <<"dat">> -> "raw_read"
      [] enc = <<"h5">> -> "h5read"
      [] enc = <<"nc">> -> "ncread"

\* C10: read.data: for each encoding dat, h5, nc, flagoutput 0, 1, 2 each run
\* exactly one reader variant (density-only, full-curvilinear, averaged) of
\* that encoding; any other flagoutput raises and returns no frame; any other
\* encoding raises ValueError; an empty path returns an empty frame and reads
\* nothing.
C10_Dispatch ==
    IsDataCall =>
        IF ~call.fn.given
        THEN call.ret = ReturnedEmpty /\ call.reads = <<>>
        ELSE /\ (C10_Encoding \in KnownEncodings /\ call.flag \in 0..2) =>
                  /\ FrameReadersRun = <<<<C10_Module(C10_Encoding), C10_Variant(call.flag)>>>>
                  /\ call.ret.kind = "frame" =>
                       call.ret.reader = <<C10_Module(C10_Encoding), C10_Variant(call.flag)>>
             /\ (C10_Encoding \in KnownEncodings /\ call.flag \notin 0..2) =>
                  /\ call.ret.kind = "raise"
                  /\ FrameReadersRun = <<>>
             /\ C10_Encoding \notin KnownEncodings =>
                  /\ call.ret = Raised("ValueError")
                  /\ FrameReadersRun = <<>>

\* C10 witness: a .dat path read as h5 with flagoutput 2 has returned a frame
\* from the h5 averaged reader.
C10_Witness ==
    /\ IsDataCall
    /\ call.fn = FramePath(<<".", "dat">>)
    /\ call.file_format = <<"h5">>
    /\ call.flag = 2
    /\ call.ret.kind = "frame"
    /\ call.ret.reader = <<"h5read", "frame3d_curvavg">>

\* ---------------------------------------------------------------- claims, hdf.py frames
IsCurvCall == call.op = "loadframe3d_curv"
IsCurvAvgCall == call.op = "loadframe3d_curvavg"
\* an output frame and a size file holding a triple are on disk
SizeOnDisk == sizeFile.exists /\ DOMAIN sizeFile.data = {"lxs"}
FullFrameOnDisk == frameFile.exists /\ {"time/UThour", "nsall"} \subseteq DOMAIN frameFile.data
AvgFrameOnDisk == frameFile.exists /\ {"time/UThour", "neall"} \subseteq DOMAIN frameFile.data
DeclaredSize == <<sizeFile.data["lxs"].at[<<1>>], sizeFile.data["lxs"].at[<<2>>],
                  sizeFile.data["lxs"].at[<<3>>]>>
SpeciesFields == {"ns", "vs", "Ts"}
SpatialFields == {"ne", "v1", "Ti", "Te", "J1", "J2", "J3", "v2", "v3"}
\* the shape a stored dataset has once the reader has permuted it
PermutedShape(k, p) ==
    LET st == frameFile.data[k].shape
    IN  <<st[p[1] + 1], st[p[2] + 1], st[p[3] + 1]>> \o
        (IF Len(st) = 4 THEN <<st[p[4] + 1]>> ELSE <<>>)
StoredMismatch ==
    \/ \E k \in {"nsall", "vs1all", "Tsall"} :
         LET sh == PermutedShape(k, ReaderP4(sizeFile.data["lxs"]))
         IN  sh[1] # 7 \/ Tail(sh) # DeclaredSize
    \/ \E k \in {"J1all", "J2all", "J3all", "v2avgall", "v3avgall"} :
         PermutedShape(k, ReaderP3(sizeFile.data["lxs"])) # DeclaredSize
AvgStoredMismatch ==
    \E k \in {"neall", "v1avgall", "Tavgall", "TEall", "J1all", "J2all", "J3all",
              "v2avgall", "v3avgall"} :
        PermutedShape(k, <<2, 0, 1>>) # DeclaredSize

\* C11: the full-curvilinear and the averaged reader raise ValueError whenever
\* any stored field, once permuted, has a spatial shape other than the declared
\* size (or a species axis not of length 7), and never return a frame holding a
\* field whose spatial shape differs from the declared size.
C11_ShapeMismatchRaises ==
    (SizeOnDisk /\ ((IsCurvCall /\ FullFrameOnDisk) \/ (IsCurvAvgCall /\ AvgFrameOnDisk))) =>
        /\ (IsCurvCall /\ StoredMismatch) => call.ret = Raised("ValueError")
        /\ (IsCurvAvgCall /\ AvgStoredMismatch) => call.ret = Raised("ValueError")
        /\ call.ret.kind = "dat" =>
             /\ \A k \in SpeciesFields \cap DOMAIN call.ret.dat :
                  Tail(call.ret.dat[k].shape) = DeclaredSize
             /\ \A k \in SpatialFields \cap DOMAIN call.ret.dat :
                  call.ret.dat[k].shape = DeclaredSize

IsWriteStateCall == call.op = "write_state"
\* a stored species array as the reader permutes it for the size lxs
ReadBack(k, lxs) == TransposeAxes(frameFile.data[k], ReaderP4(lxs))

\* C12: species arrays of shape (7, lx1, lx2, lx3) written by write_state and
\* permuted with the permutation the reader selects for that size come back
\* with shape (7, lx1, lx2, lx3) and the same element (as stored in 32 bits) at
\* every index, and pass the reader's shape validation, for every size,
\* lx3 = 1 included.
C12_PermutationRoundTrip ==
    IsWriteStateCall =>
        LET lxs == Triple(call.lxs[1], call.lxs[2], call.lxs[3])
            written == ("nsall" :> call.ns) @@ ("vs1all" :> call.vs) @@ ("Tsall" :> call.Ts)
        IN  \A k \in DOMAIN written :
              /\ ReadBack(k, lxs).shape = <<7>> \o call.lxs
              /\ \A idx \in DOMAIN written[k].at :
                   ReadBack(k, lxs).at[idx] = F32(written[k].at[idx])
              /\ ~(ReadBack(k, lxs).shape[1] # LSP \/ ShapeDiffers(Tail(ReadBack(k, lxs).shape), lxs))

\* ---------------------------------------------------------------- claims, compare/grid.py
IsCompareCall == call.op = "compare_grid"
ArrayFields(g) == {i \in 1..Len(g) : "shape" \in DOMAIN g[i].value}
CandidateOf(i) == call.new[CHOOSE j \in 1..Len(call.new) : call.new[j].name = call.ref[i].name].value
HasCandidate(i) == \E j \in 1..Len(call.new) : call.new[j].name = call.ref[i].name
SameShapes ==
    \A i \in ArrayFields(call.ref) : HasCandidate(i) /\ CandidateOf(i).shape = call.ref[i].value.shape
OutOfTolerance(i) ==
    \E idx \in DOMAIN call.ref[i].value.at :
        LET a == call.ref[i].value.at[idx]
            b == CandidateOf(i).at[idx]
            d == IF a >= b THEN a - b ELSE b - a
        IN  \/ a = NaN \/ b = NaN
            \/ 100 * d > 100 * call.tol.atol + call.tol.rtol * (IF b < 0 THEN 0 - b ELSE b)
IdenticalArrays == \A i \in ArrayFields(call.ref) : CandidateOf(i) = call.ref[i].value
NoNaN == \A i \in ArrayFields(call.ref) : \A idx \in DOMAIN call.ref[i].value.at :
             call.ref[i].value.at[idx] # NaN

\* C13 (as claimed): when every array field of the reference has the same
\* shape in the candidate, compare_grid returns the number of array fields of
\* the reference that are not within tolerance of the candidate's; two
\* identical grids give 0; fields that are no arrays never count.
C13_ErrorCount ==
    (IsCompareCall /\ call.ref # <<>> /\ call.new # <<>> /\ SameShapes) =>
        /\ call.ret.kind = "count"
        /\ call.ret.errs = Cardinality({i \in ArrayFields(call.ref) : OutOfTolerance(i)})
        /\ IdenticalArrays => call.ret.errs = 0

\* C13 (amended): as claimed, but two identical grids give 0 only when no
\* array field of theirs holds a NaN element; a field with a NaN element is
\* never within tolerance, not even of itself.
C13_ErrorCountFinite ==
    (IsCompareCall /\ call.ref # <<>> /\ call.new # <<>> /\ SameShapes) =>
        /\ call.ret.kind = "count"
        /\ call.ret.errs = Cardinality({i \in ArrayFields(call.ref) : OutOfTolerance(i)})
        /\ (IdenticalArrays /\ NoNaN) => call.ret.errs = 0

\* C13 witness: with the reference x1, a non-array note and alt, a candidate
\* whose alt alone is beyond tolerance and whose note differs has given 1.
C13_Witness ==
    /\ IsCompareCall
    /\ Len(call.ref) = 3
    /\ SameShapes
    /\ CandidateOf(1) = call.ref[1].value
    /\ HasCandidate(2)
    /\ CandidateOf(2) # call.ref[2].value
    /\ OutOfTolerance(3)
    /\ call.ret.kind = "count"
    /\ call.ret.errs = 1

ShapeMismatchAt(i) ==
    i \in ArrayFields(call.ref) /\ HasCandidate(i) /\ CandidateOf(i).shape # call.ref[i].value.shape
FirstMismatch == CHOOSE i \in 1..Len(call.ref) :
                    ShapeMismatchAt(i) /\ \A j \in 1..(i - 1) : ~ShapeMismatchAt(j)
ArrayFieldsBefore(i) == {j \in ArrayFields(call.ref) : j < i}

\* C14: a missing reference or candidate grid raises FileNotFoundError before
\* any field is compared; a shape mismatch in an array field raises
\* (AssertionError) at that field, whatever earlier fields failed tolerance:
\* no count comes back, and only the array fields before it were compared.
C14_StructuralErrorsFatal ==
    IsCompareCall =>
        /\ (call.ref = <<>> \/ call.new = <<>>) =>
              call.ret = RaisedAt("FileNotFoundError", <<>>)
        /\ (call.ref # <<>> /\ call.new # <<>> /\ \E i \in 1..Len(call.ref) : ShapeMismatchAt(i)) =>
              /\ call.ret.kind = "raise"
              /\ (\A j \in ArrayFieldsBefore(FirstMismatch) : HasCandidate(j)) =>
                    /\ call.ret.exc = "AssertionError"
                    /\ Len(call.ret.compared) = Cardinality(ArrayFieldsBefore(FirstMismatch))
                    /\ \A j \in ArrayFieldsBefore(FirstMismatch) :
                         \E n \in 1..Len(call.ret.compared) : call.ret.compared[n] = call.ref[j].name

\* C14 witness: x1 of the candidate is beyond tolerance and alt, the field
\* after it, has another shape: AssertionError after x1 alone was compared.
C14_Witness ==
    /\ IsCompareCall
    /\ Len(call.ref) = 2
    /\ call.ref[1].name = "x1"
    /\ HasCandidate(1) /\ ~ShapeMismatchAt(1) /\ OutOfTolerance(1)
    /\ ShapeMismatchAt(2)
    /\ call.ret = RaisedAt("AssertionError", <<"x1">>)

\* the h5py dataset objects a returned structure holds
DatasetRefs(ret) ==
    IF ret.kind = "dict"
    THEN {k \in DOMAIN ret.values : ret.values[k].kind = "dataset"}
    ELSE {}

\* C15: when a reader or writer has returned or raised, every file handle it
\* opened is closed, and no value of the returned structure refers to a dataset
\* of a file that is closed (every entry read_Efield returns, the flagdirich
\* flag included, is a copy in memory).
C15_HandlesClosedValuesFresh ==
    call # NoCall =>
        /\ handles = {}
        /\ \A k \in DatasetRefs(call.ret) : call.ret.values[k].file \in handles

\* the density-weighted sum over the six ion species at one cell
IonSum(ns, xs, idx) ==
    ns.at[<<1>> \o idx] * xs.at[<<1>> \o idx] + ns.at[<<2>> \o idx] * xs.at[<<2>> \o idx]
    + ns.at[<<3>> \o idx] * xs.at[<<3>> \o idx] + ns.at[<<4>> \o idx] * xs.at[<<4>> \o idx]
    + ns.at[<<5>> \o idx] * xs.at[<<5>> \o idx] + ns.at[<<6>> \o idx] * xs.at[<<6>> \o idx]
SpeciesShaped(a) == a.shape = <<7>> \o DeclaredSize

\* C16: in a frame the full-curvilinear reader returns from species arrays of
\* shape (7, lx1, lx2, lx3), at every cell ne is the 7th species' density, Te
\* the 7th species' temperature, and v1 and Ti are the sums over the first six
\* species only of density times velocity (temperature) divided by ne.
C16_BulkMoments ==
    (IsCurvCall /\ SizeOnDisk /\ FullFrameOnDisk /\ call.ret.kind = "dat"
       /\ SpeciesShaped(call.ret.dat["ns"]) /\ SpeciesShaped(call.ret.dat["vs"])
       /\ SpeciesShaped(call.ret.dat["Ts"])) =>
        LET dat == call.ret.dat
        IN  \A idx \in DOMAIN dat["ne"].at :
              /\ dat["ne"].at[idx] = dat["ns"].at[<<7>> \o idx]
              /\ dat["Te"].at[idx] = dat["Ts"].at[<<7>> \o idx]
              /\ dat["v1"].at[idx] = [num |-> IonSum(dat["ns"], dat["vs"], idx),
                                      den |-> dat["ne"].at[idx]]
              /\ dat["Ti"].at[idx] = [num |-> IonSum(dat["ns"], dat["Ts"], idx),
                                      den |-> dat["ne"].at[idx]]

\* C16 witness: a frame of more than one cell has been read, and the 7th
\* species' density times its velocity is not zero at the last cell.
C16_Witness ==
    /\ IsCurvCall
    /\ SizeOnDisk /\ FullFrameOnDisk
    /\ call.ret.kind = "dat"
    /\ SpeciesShaped(call.ret.dat["ns"]) /\ SpeciesShaped(call.ret.dat["vs"])
    /\ SpeciesShaped(call.ret.dat["Ts"])
    /\ DeclaredSize[1] > 1 /\ DeclaredSize[2] > 1
    /\ call.ret.dat["ns"].at[<<7>> \o DeclaredSize] * call.ret.dat["vs"].at[<<7>> \o DeclaredSize] > 0
    /\ DOMAIN call.ret.dat["v1"].at = DOMAIN call.ret.dat["ne"].at

\* ---------------------------------------------------------------- claims, find.py, ordering
\* the allowed suffixes in the order of preference: the given format's alone,
\* or .h5 before .nc
PreferredExts(file_format) ==
    IF file_format = NoArg THEN << <<".", "h5">>, <<".", "nc">> >> ELSE << <<".">> \o file_format >>

\* the file carrying exactly the expected name with the i-th preferred suffix
ExactName(i) == FrameFile(FrameStem(call.time), PreferredExts(call.file_format)[i])

\* the preferred suffixes whose exactly-named file is on disk
ExactPresent ==
    {i \in 1..Len(PreferredExts(call.file_format)) : ExactName(i) \in frames}

\* C17: when the exactly-named file exists for any allowed suffix, frame()
\* returns the exactly-named file of the first such suffix in preference order,
\* whatever approximately-matching files are on disk; a file that does not
\* carry the exact name is returned only when the exact name is absent for
\* every allowed suffix.
C17_ExactBeforeApproximate ==
    IsFrameCall =>
        /\ ExactPresent # {} =>
              \E i \in ExactPresent :
                  /\ \A j \in ExactPresent : i <= j
                  /\ call.ret = Returned(ExactName(i))
        /\ (call.ret.kind = "path" /\ Distance(call.ret.path, call.time) # 0)
              => ExactPresent = {}

\* C17 witness: the exact name exists only with the less preferred suffix .nc,
\* a .h5 file of the same date lies within the tolerance, and the exact .nc
\* file is returned.
C17_Witness ==
    /\ IsFrameCall
    /\ call.file_format = NoArg
    /\ ExactPresent = {2}
    /\ \E fn \in frames :
          /\ fn.date = call.time.date /\ fn.ext = <<".", "h5">>
          /\ Distance(fn, call.time) > 0 /\ Distance(fn, call.time) <= MicrosPerSecond
    /\ call.ret = Returned(ExactName(2))

====
